---- MODULE Spec2Model ----
(***************************************************************************)
(* Model of parse.py: main() resolves the database to report on (support   *)
(* file, explicit path or default path) and dumpproject() streams the HTML *)
(* outline of the Vive project to stdout.                                  *)
(***************************************************************************)
EXTENDS Integers, Sequences, FiniteSets, TLC

(* ---------------------------- bounds ----------------------------------- *)
MaxMatch == 2        \* archive entries named like the embedded database
MaxAreas == 2        \* rows of table Area
MaxDevices == 2      \* Device rows contained in one area
MaxJoinRows == 2     \* rows produced by an association join chain
MaxLen == 5          \* length of a firmware revision string

(* ------------------------- pure helpers -------------------------------- *)
SeqsUpTo(S, n) == UNION {[1..k -> S] : k \in 0..n}

HexDigits == <<"0","1","2","3","4","5","6","7","8","9","A","B","C","D","E","F">>

RECURSIVE HexOf(_)
\* "%X" % n for n >= 0
HexOf(n) == IF n < 16 THEN <<HexDigits[n + 1]>>
            ELSE Append(HexOf(n \div 16), HexDigits[(n % 16) + 1])

RECURSIVE ZeroPad(_, _)
ZeroPad(s, w) == IF Len(s) >= w THEN s ELSE ZeroPad(<<"0">> \o s, w)

\* "%08X" % n
Hex8(n) == ZeroPad(HexOf(n), 8)

\* plausible slip: removes a single leading character only
lstrip_one(s, ch) == IF s # <<>> /\ Head(s) = ch THEN Tail(s) ELSE s

RECURSIVE lstrip(_, _)
\* str.lstrip(ch) for a one-character argument
lstrip(s, ch) == IF s # <<>> /\ Head(s) = ch THEN lstrip(Tail(s), ch) ELSE s

RECURSIVE Distinct(_)
\* SELECT DISTINCT: one row per distinct tuple, first occurrence kept
Distinct(rows) ==
    IF rows = <<>> THEN <<>>
    ELSE LET front == Distinct(SubSeq(rows, 1, Len(rows) - 1))
             last  == rows[Len(rows)]
         IN IF \E k \in 1..Len(front) : front[k] = last
            THEN front ELSE Append(front, last)

(* --------------------- structure of the output ------------------------- *)
O(tag, id) == <<"open", tag, id>>
C(tag) == <<"close", tag>>

\* structural tags (<div>, <ul>, <li>) of the lines printed by dumpproject
Line141 == <<O("div", "hub_info")>>
Line163 == <<C("div"), O("div", "areas")>>
Line191 == <<O("div", "area")>>
Line193 == <<O("div", "devices"), O("ul", "devices")>>
LineControlOpen == <<O("div", "control_device")>>
LineControlList == <<C("div"), O("div", "assigned_devices"), O("ul", "assigned_devices")>>
LineItemOpen == <<O("li", "assigned_device")>>
LineItemClose == <<C("li")>>
LineControlClose == <<C("ul"), C("div")>>
Line330 == <<O("div", "load_controller")>>
Line332 == <<C("div")>>
Line334 == <<C("ul"), C("div"), C("div")>>

EmptyDoc == [stack |-> <<>>, ok |-> TRUE]

\* effect of one tag on the stack of open elements
Tag(d, ev) ==
    IF ev[1] = "open" THEN [d EXCEPT !.stack = Append(@, <<ev[2], ev[3]>>)]
    ELSE IF d.stack # <<>> /\ d.stack[Len(d.stack)][1] = ev[2]
         THEN [d EXCEPT !.stack = SubSeq(@, 1, Len(@) - 1)]
         ELSE [d EXCEPT !.ok = FALSE]

RECURSIVE Emit(_, _)
\* print(line): the tags of the line, left to right
Emit(d, line) == IF line = <<>> THEN d ELSE Emit(Tag(d, Head(line)), Tail(line))

RECURSIVE EmitItems(_, _)
\* the loop over programmed_devices_rows: <li>, text, </li> per row
EmitItems(d, n) ==
    IF n = 0 THEN d
    ELSE EmitItems(Emit(Emit(d, LineItemOpen), LineItemClose), n - 1)

(* ------------------------- the database -------------------------------- *)
pico_device_class_info_ids == {12, 21, 22, 23, 24, 25, 32, 33, 34, 35}
occ_sensor_device_class_info_ids == {11}
daylight_sensor_device_class_info_ids == {46}

\* class-info ids of the modelled catalogue: a dimmer (5), the occupancy
\* sensor, a Pico, the daylight sensor
ClassIds == {5, 11, 12, 46}
DeviceClassInfo == [c \in ClassIds |-> [ModelNumber |-> <<"M", c>>, ShortDescription |-> <<"D", c>>]]

AreaNames == {"root", "Kitchen"}
FwSamples == {<<"0","0","7",".","1">>, <<"0","0","0">>, <<"1",".","0">>}

\* Device rows differ in class and container type; a row outside
\* an area container is never classified, so one class stands for it.
\* Every row has its DeviceClassInfo row and its own serial number
RowKinds == {[ContainerObjectTypeID |-> 2, DeviceClassInfoID |-> c] : c \in ClassIds}
            \cup {[ContainerObjectTypeID |-> 1, DeviceClassInfoID |-> 5]}

\* DeviceIDs of the load devices the linking tables lead to
LoadDeviceIDs == {1, 2}

\* the tables the queries read; at most one of them is absent from the file
Tables == {"Device", "WifiSettings", "Area", "DeviceClassInfo", "SwitchLegController"}

\* the possible contents of one area's slice of table Device, of table
\* Area, and of the result of a linking-table join
DeviceSlices == SeqsUpTo(RowKinds, MaxDevices)
AreaTables == SeqsUpTo(AreaNames, MaxAreas)
JoinResults == SeqsUpTo(LoadDeviceIDs, MaxJoinRows)

DeviceName(id) == <<"Device", id>>
SerialNumber(id) == 41 + id

\* the Device rows whose ContainerObjectID is area_id
ContainerRows(area_id, kinds) ==
    [k \in 1..Len(kinds) |->
        [DeviceID |-> 10 * area_id + k,
         ContainerObjectID |-> area_id,
         ContainerObjectTypeID |-> kinds[k].ContainerObjectTypeID,
         DeviceClassInfoID |-> kinds[k].DeviceClassInfoID]]

\* plausible slip: the container-type condition left out
SelectDevicesAnyType(rows) ==
    SelectSeq(rows, LAMBDA r : r.DeviceClassInfoID \in DOMAIN DeviceClassInfo)

\* SELECT ... FROM Device JOIN DeviceClassInfo ... WHERE ContainerObjectID = ?
\* AND ContainerObjectTypeID = 2 (rows are already those of the area)
SelectDevices(rows) ==
    SelectSeq(rows, LAMBDA r : r.ContainerObjectTypeID = 2
                               /\ r.DeviceClassInfoID \in DOMAIN DeviceClassInfo)

\* SELECT AreaID, Name FROM Area WHERE Name != "root"
SelectAreas(table) == SelectSeq(table, LAMBDA a : a.Name # "root")

\* a row of an association query for the load device with DeviceID t
ProgrammedRow(t) ==
    [Name |-> DeviceName(t), SerialNumber |-> SerialNumber(t),
     ModelNumber |-> DeviceClassInfo[5].ModelNumber,
     ShortDescription |-> DeviceClassInfo[5].ShortDescription]

\* plausible slip: SELECT without DISTINCT
SelectProgrammedAll(join) == [k \in 1..Len(join) |-> ProgrammedRow(join[k])]

\* SELECT DISTINCT Device.Name, Device.SerialNumber, ModelNumber,
\* ShortDescription over the rows of the linking-table join
SelectProgrammed(join) == Distinct([k \in 1..Len(join) |-> ProgrammedRow(join[k])])

\* plausible slip: the daylight branch missing from the elif chain
CategoryNoDaylight(cls) ==
    IF cls \in pico_device_class_info_ids THEN "pico"
    ELSE IF cls \in occ_sensor_device_class_info_ids THEN "occupancy"
    ELSE "load_controller"

\* the if / elif / elif / else chain over the three lookup lists
Category(cls) ==
    IF cls \in pico_device_class_info_ids THEN "pico"
    ELSE IF cls \in occ_sensor_device_class_info_ids THEN "occupancy"
    ELSE IF cls \in daylight_sensor_device_class_info_ids THEN "daylight"
    ELSE "load_controller"

(* ------------------------ input resolution ----------------------------- *)
PathArgs == {"None", "missing", "file"}   \* flag absent / not a file / a file

\* os.path.isfile on a supplied argument
_fileexists(path) == path = "file"

\* plausible slip: more than one matching entry accepted
AtLeastOne(n) == n >= 1

\* len(info) == 1
ExactlyOne(n) == n = 1

\* plausible slip: the database path takes precedence
SourcePreferDatabase(s, d) ==
    IF d # "None" THEN "database_path"
    ELSE IF s # "None" THEN "support_file" ELSE "default"

\* the branch of main() that is taken
Source(s, d) ==
    IF s # "None" THEN "support_file"
    ELSE IF d # "None" THEN "database_path" ELSE "default"

(* ----------------------------- state ----------------------------------- *)
VARIABLES
    py,               \* major version of the interpreter behind "python"
    support_file,     \* args.support_file as given on the command line
    database_path,    \* args.database_path as given on the command line
    pc,               \* position of the run
    exit_code,        \* exit status of the process, -1 while it runs
    error,            \* what ended the run abnormally
    info,             \* len(info), -1 before the archive is scanned
    default_isfile,   \* result of os.path.isfile on the default path
    temp,             \* the NamedTemporaryFile: "none", "exists", "removed"
    dbpath,           \* argument of dumpproject
    calls,            \* number of calls of dumpproject
    conn,             \* the sqlite connection: "none", "open", "closed"
    c,                \* the cursor: the last statement it executed
    missing,          \* the table the opened file lacks, or "none"
    Area,             \* table Area of the opened database
    doc,              \* open structural elements of the text printed so far
    wrote,            \* something was printed to stdout
    complete,         \* the last line of the document was printed
    area_rows, ai,    \* result of the area query, index of the area loop
    container_rows,   \* Device rows contained in the current area
    device_rows, di,  \* result of the device query, index of the device loop
    sections,         \* AreaIDs whose heading was printed, in order
    heading,          \* the heading printed for the current area
    frag,             \* what was printed for the current device of the loop
    fw_in, fw_out, fw_again, fw_pc   \* firmware revision being formatted

vars == <<py, support_file, database_path, pc, exit_code, error, info,
          default_isfile, temp, dbpath, calls, conn, c, missing, Area, doc,
          wrote, complete, area_rows, ai, container_rows, device_rows, di,
          sections, heading, frag, fw_in, fw_out, fw_again, fw_pc>>

mainVars == <<info, default_isfile, temp, dbpath>>
dbVars == <<conn, c, missing, Area>>
outVars == <<doc, wrote, complete>>
loopVars == <<area_rows, ai, container_rows, device_rows, di, sections, heading, frag>>
argVars == <<py, support_file, database_path>>
fwVars == <<fw_in, fw_out, fw_again, fw_pc>>

NoHeading == [area_id |-> 0, name |-> "", count |-> 0]
NoFrag == [kind |-> "none", DeviceID |-> 0, cls |-> 0, queries |-> 0,
           tag |-> <<>>, name |-> <<>>, serial |-> <<>>, fw_raw |-> <<>>,
           fw |-> <<>>, joined |-> 0, count |-> 0, items |-> <<>>]

Idle ==
    /\ pc = "parse_args" /\ exit_code = -1 /\ error = "none"
    /\ info = -1 /\ default_isfile = "unchecked" /\ temp = "none"
    /\ dbpath = "none" /\ calls = 0
    /\ conn = "none" /\ c = "none" /\ missing = "none" /\ Area = <<>>
    /\ doc = EmptyDoc /\ wrote = FALSE /\ complete = FALSE
    /\ area_rows = <<>> /\ ai = 1 /\ container_rows = <<>>
    /\ device_rows = <<>> /\ di = 1 /\ sections = <<>>
    /\ heading = NoHeading /\ frag = NoFrag

Init ==
    /\ py \in {2, 3}
    /\ support_file \in PathArgs
    /\ database_path \in PathArgs
    /\ Idle
    /\ fw_in = <<>> /\ fw_out = <<>> /\ fw_again = <<>> /\ fw_pc = "unused"

(* --------------------------- main() ------------------------------------ *)
\* parser.error / an uncaught exception: the process ends with a status
Exit(code, why) ==
    /\ pc' = "exited" /\ exit_code' = code /\ error' = why

\* an exception leaves dumpproject and main: nothing after the raising
\* statement runs
Raise == Exit(1, "traceback")

\* argparse applies _fileexists to every supplied path
ParseArgsError ==
    /\ pc = "parse_args"
    /\ \E a \in {support_file, database_path} : a # "None" /\ ~_fileexists(a)
    /\ Exit(2, "argument")
    /\ UNCHANGED <<argVars, mainVars, calls, dbVars, outVars, loopVars, fwVars>>

ParseArgs ==
    /\ pc = "parse_args"
    /\ \A a \in {support_file, database_path} : a = "None" \/ _fileexists(a)
    /\ pc' = "resolve"
    /\ UNCHANGED <<argVars, exit_code, error, mainVars, calls, dbVars, outVars, loopVars, fwVars>>

\* tarfile.open raises on a file that is not a gzip-compressed tar
TarOpenError ==
    /\ pc = "resolve"
    /\ Source(support_file, database_path) = "support_file"
    /\ Raise
    /\ UNCHANGED <<argVars, mainVars, calls, dbVars, outVars, loopVars, fwVars>>

\* info = [s for s in tar if s.name == "./supportfile/lutron-db.sqlite"]
ScanArchive ==
    /\ pc = "resolve"
    /\ Source(support_file, database_path) = "support_file"
    /\ \E n \in 0..MaxMatch : info' = n
    /\ pc' = "scanned"
    /\ UNCHANGED <<argVars, exit_code, error, default_isfile, temp, dbpath, calls,
                   dbVars, outVars, loopVars, fwVars>>

ArchiveError ==
    /\ pc = "scanned"
    /\ ~ExactlyOne(info)
    /\ Exit(2, "archive")
    /\ UNCHANGED <<argVars, mainVars, calls, dbVars, outVars, loopVars, fwVars>>

\* extractfile, NamedTemporaryFile(delete=False), copyfileobj, close
ExtractTemp ==
    /\ pc = "scanned"
    /\ ExactlyOne(info)
    /\ temp' = "exists"
    /\ dbpath' = "temp"
    /\ pc' = "dumpproject"
    /\ UNCHANGED <<argVars, exit_code, error, info, default_isfile, calls,
                   dbVars, outVars, loopVars, fwVars>>

UseDatabasePath ==
    /\ pc = "resolve"
    /\ Source(support_file, database_path) = "database_path"
    /\ dbpath' = "database_path"
    /\ pc' = "dumpproject"
    /\ UNCHANGED <<argVars, exit_code, error, info, default_isfile, temp, calls,
                   dbVars, outVars, loopVars, fwVars>>

\* os.path.isfile("/var/db/lutron-db.sqlite")
CheckDefault ==
    /\ pc = "resolve"
    /\ Source(support_file, database_path) = "default"
    /\ \E e \in {"yes", "no"} : default_isfile' = e
    /\ pc' = "default_checked"
    /\ UNCHANGED <<argVars, exit_code, error, info, temp, dbpath, calls,
                   dbVars, outVars, loopVars, fwVars>>

DefaultError ==
    /\ pc = "default_checked"
    /\ default_isfile = "no"
    /\ Exit(2, "default")
    /\ UNCHANGED <<argVars, mainVars, calls, dbVars, outVars, loopVars, fwVars>>

UseDefault ==
    /\ pc = "default_checked"
    /\ default_isfile = "yes"
    /\ dbpath' = "default"
    /\ pc' = "dumpproject"
    /\ UNCHANGED <<argVars, exit_code, error, info, default_isfile, temp, calls,
                   dbVars, outVars, loopVars, fwVars>>

\* dumpproject(temp.name) returned: os.remove(temp.name), end of main
RemoveTemp ==
    /\ pc = "returned"
    /\ dbpath = "temp"
    /\ temp' = "removed"
    /\ Exit(0, "none")
    /\ UNCHANGED <<argVars, info, default_isfile, dbpath, calls, dbVars, outVars,
                   loopVars, fwVars>>

\* dumpproject(args.database_path) returned: end of main
Finish ==
    /\ pc = "returned"
    /\ dbpath # "temp"
    /\ Exit(0, "none")
    /\ UNCHANGED <<argVars, mainVars, calls, dbVars, outVars, loopVars, fwVars>>

(* ------------------------- dumpproject() ------------------------------- *)
Row == device_rows[di]
AreaRow == area_rows[ai]

\* sqlite3.connect, the boilerplate, the print button, <div id='hub_info'>
Connect ==
    /\ pc = "dumpproject"
    /\ calls' = calls + 1
    /\ conn' = "open"
    /\ c' = "none"
    /\ \E t \in Tables \cup {"none"} : missing' = t
    /\ \E names \in AreaTables :
          Area' = [k \in 1..Len(names) |-> [AreaID |-> k, Name |-> names[k]]]
    /\ doc' = Emit(doc, Line141)
    /\ wrote' = TRUE
    /\ pc' = "hub"
    /\ UNCHANGED <<argVars, exit_code, error, mainVars, complete, loopVars, fwVars>>

\* c.execute raises sqlite3.OperationalError (no such table): uncaught
QueryError(table) ==
    /\ missing = table
    /\ Raise
    /\ UNCHANGED <<argVars, mainVars, calls, dbVars, outVars, loopVars, fwVars>>

HubQueryError ==
    /\ pc = "hub"
    /\ QueryError("Device")

WifiQueryError ==
    /\ pc = "wifi"
    /\ QueryError("WifiSettings")

AreaQueryError ==
    /\ pc = "areas"
    /\ QueryError("Area")

DeviceQueryError ==
    /\ pc = "area_loop"
    /\ ai <= Len(area_rows)
    /\ QueryError("DeviceClassInfo")

AssocQueryError ==
    /\ pc = "device"
    /\ Category(Row.DeviceClassInfoID) # "load_controller"
    /\ QueryError("SwitchLegController")

\* the hub query and its loop: text lines only, whatever the rows
QueryHub ==
    /\ pc = "hub"
    /\ missing # "Device"
    /\ pc' = "wifi"
    /\ c' = "hub"
    /\ UNCHANGED <<argVars, exit_code, error, mainVars, calls, conn, missing, Area, outVars,
                   loopVars, fwVars>>

\* the wifi query and its loop (text and a textarea per row, no div, ul or
\* li), the expand / collapse links, then "</div><br /><div id='areas'>"
QueryWifi ==
    /\ pc = "wifi"
    /\ missing # "WifiSettings"
    /\ doc' = Emit(doc, Line163)
    /\ pc' = "areas"
    /\ c' = "wifi"
    /\ UNCHANGED <<argVars, exit_code, error, mainVars, calls, conn, missing, Area, wrote,
                   complete, loopVars, fwVars>>

QueryAreas ==
    /\ pc = "areas"
    /\ missing # "Area"
    /\ area_rows' = SelectAreas(Area)
    /\ ai' = 1
    /\ pc' = "area_loop"
    /\ c' = "areas"
    /\ UNCHANGED <<argVars, exit_code, error, mainVars, calls, conn, missing, Area, outVars,
                   container_rows, device_rows, di, sections, heading, frag, fwVars>>

\* the device query of the area
QueryDevices(kinds) ==
    /\ container_rows' = ContainerRows(AreaRow.AreaID, kinds)
    /\ device_rows' = SelectDevices(container_rows')

\* Python 2: print (fmt) % (area_name) prints the formatted line; then the
\* heading and the devices div with its list
DumpArea ==
    /\ pc = "area_loop"
    /\ ai <= Len(area_rows)
    /\ missing # "DeviceClassInfo"
    /\ py = 2
    /\ c' = "devices"
    /\ \E kinds \in DeviceSlices : QueryDevices(kinds)
    /\ doc' = Emit(Emit(doc, Line191), Line193)
    /\ heading' = [area_id |-> AreaRow.AreaID, name |-> AreaRow.Name,
                   count |-> Len(device_rows')]
    /\ sections' = Append(sections, AreaRow.AreaID)
    /\ di' = 1
    /\ pc' = "device_loop"
    /\ UNCHANGED <<argVars, exit_code, error, mainVars, calls, conn, missing, Area, wrote,
                   complete, area_rows, ai, frag, fwVars>>

\* Python 3: print(fmt) prints the unformatted line and returns None, and
\* None % (area_name) raises TypeError
DumpAreaTypeError ==
    /\ pc = "area_loop"
    /\ ai <= Len(area_rows)
    /\ missing # "DeviceClassInfo"
    /\ py = 3
    /\ c' = "devices"
    /\ \E kinds \in DeviceSlices : QueryDevices(kinds)
    /\ doc' = Emit(doc, Line191)
    /\ Raise
    /\ UNCHANGED <<argVars, mainVars, calls, conn, missing, Area, wrote, complete, area_rows,
                   ai, di, sections, heading, frag, fwVars>>

\* for device_row in device_rows: the next row is unpacked into the
\* locals; nothing is printed for it yet
NextDevice ==
    /\ pc = "device_loop"
    /\ di <= Len(device_rows)
    /\ frag' = NoFrag
    /\ pc' = "device"
    /\ UNCHANGED <<argVars, exit_code, error, mainVars, calls, dbVars, outVars,
                   area_rows, ai, container_rows, device_rows, di, sections,
                   heading, fwVars>>

\* the entries of the nested list: designer tag, name, "%08X" serial
Items(rows) ==
    [k \in 1..Len(rows) |-> [tag |-> rows[k].ModelNumber, name |-> rows[k].Name,
                             serial |-> Hex8(rows[k].SerialNumber)]]

\* a control device: the association query, the heading, the nested list
DumpControl(kind) ==
    /\ missing # "SwitchLegController"
    /\ \E join \in JoinResults :
         LET programmed_devices_rows == SelectProgrammed(join) IN
         /\ doc' = Emit(EmitItems(Emit(Emit(doc, LineControlOpen), LineControlList),
                                  Len(programmed_devices_rows)),
                        LineControlClose)
         /\ frag' = [NoFrag EXCEPT
                       !.kind = kind, !.DeviceID = Row.DeviceID,
                       !.cls = Row.DeviceClassInfoID, !.queries = 1,
                       !.tag = DeviceClassInfo[Row.DeviceClassInfoID].ModelNumber,
                       !.name = DeviceName(Row.DeviceID),
                       !.serial = Hex8(SerialNumber(Row.DeviceID)),
                       !.joined = Len(join),
                       !.count = Len(programmed_devices_rows),
                       !.items = Items(programmed_devices_rows)]
    /\ di' = di + 1
    /\ pc' = "device_loop"
    /\ c' = kind
    /\ UNCHANGED <<argVars, exit_code, error, mainVars, calls, conn, missing, Area, wrote,
                   complete, area_rows, ai, container_rows, device_rows, sections,
                   heading, fwVars>>

DumpPico ==
    /\ pc = "device"
    /\ Category(Row.DeviceClassInfoID) = "pico"
    /\ DumpControl("pico")

DumpOccupancy ==
    /\ pc = "device"
    /\ Category(Row.DeviceClassInfoID) = "occupancy"
    /\ DumpControl("occupancy")

DumpDaylight ==
    /\ pc = "device"
    /\ Category(Row.DeviceClassInfoID) = "daylight"
    /\ DumpControl("daylight")

\* the else branch: one div with tag, name, serial and stripped revision
DumpLoadController ==
    /\ pc = "device"
    /\ Category(Row.DeviceClassInfoID) = "load_controller"
    /\ \E device_fw_rev \in FwSamples :
         frag' = [NoFrag EXCEPT
                    !.kind = "load_controller", !.DeviceID = Row.DeviceID,
                    !.cls = Row.DeviceClassInfoID,
                    !.tag = DeviceClassInfo[Row.DeviceClassInfoID].ModelNumber,
                    !.name = DeviceName(Row.DeviceID),
                    !.serial = Hex8(SerialNumber(Row.DeviceID)),
                    !.fw_raw = device_fw_rev,
                    !.fw = lstrip(device_fw_rev, "0")]
    /\ doc' = Emit(Emit(doc, Line330), Line332)
    /\ di' = di + 1
    /\ pc' = "device_loop"
    /\ UNCHANGED <<argVars, exit_code, error, mainVars, calls, dbVars, wrote,
                   complete, area_rows, ai, container_rows, device_rows, sections,
                   heading, fwVars>>

\* end of the device loop: "</ul></div></div>", next area.  The rows of
\* the finished area are dead (the next iteration assigns device_rows before
\* any read), so they and the records of its output are dropped here
EndArea ==
    /\ pc = "device_loop"
    /\ di > Len(device_rows)
    /\ doc' = Emit(doc, Line334)
    /\ ai' = ai + 1
    /\ pc' = "area_loop"
    /\ container_rows' = <<>> /\ device_rows' = <<>> /\ di' = 1
    /\ heading' = NoHeading /\ frag' = NoFrag
    /\ UNCHANGED <<argVars, exit_code, error, mainVars, calls, dbVars, wrote,
                   complete, area_rows, sections, fwVars>>

\* end of the area loop: conn.close() and return
Close ==
    /\ pc = "area_loop"
    /\ ai > Len(area_rows)
    /\ conn' = "closed"
    /\ complete' = TRUE
    /\ pc' = "returned"
    /\ UNCHANGED <<argVars, exit_code, error, mainVars, calls, c, missing, Area,
                   doc, wrote, loopVars, fwVars>>

Next ==
    \/ ParseArgsError \/ ParseArgs
    \/ TarOpenError \/ ScanArchive \/ ArchiveError \/ ExtractTemp
    \/ UseDatabasePath \/ CheckDefault \/ DefaultError \/ UseDefault
    \/ Connect \/ HubQueryError \/ WifiQueryError \/ AreaQueryError
    \/ DeviceQueryError \/ AssocQueryError
    \/ QueryHub \/ QueryWifi \/ QueryAreas \/ DumpArea \/ DumpAreaTypeError
    \/ NextDevice \/ DumpPico \/ DumpOccupancy \/ DumpDaylight \/ DumpLoadController
    \/ EndArea \/ Close \/ RemoveTemp \/ Finish

Spec == Init /\ [][Next]_vars

(* ------------------ the firmware revision on its own ------------------- *)
FwAlphabet == {"0", "1", "7", "."}

InitStrip ==
    /\ py = 2 /\ support_file = "None" /\ database_path = "None"
    /\ Idle
    /\ fw_in \in SeqsUpTo(FwAlphabet, MaxLen)
    /\ fw_out = <<>> /\ fw_again = <<>> /\ fw_pc = "read"

\* device_fw_rev.lstrip("0")
Strip ==
    /\ fw_pc = "read"
    /\ fw_out' = lstrip(fw_in, "0")
    /\ fw_pc' = "stripped"
    /\ UNCHANGED <<argVars, pc, exit_code, error, mainVars, calls, dbVars, outVars,
                   loopVars, fw_in, fw_again>>

\* the same transformation applied to its own result
StripAgain ==
    /\ fw_pc = "stripped"
    /\ fw_again' = lstrip(fw_out, "0")
    /\ fw_pc' = "done"
    /\ UNCHANGED <<argVars, pc, exit_code, error, mainVars, calls, dbVars, outVars,
                   loopVars, fw_in, fw_out>>

NextStrip == Strip \/ StripAgain

SpecStrip == InitStrip /\ [][NextStrip]_vars

(* ============================ properties =============================== *)
Exited == pc = "exited"

\* C1: on the archive path the temporary file is absent in every terminal
\* state of the run, after a normal return of dumpproject and after a
\* failure inside it alike.
C1_TempFileDeleted == Exited => temp # "exists"

\* C2: an archive with zero or with several matching entries ends the run
\* with the archive error, and no temporary file, no connection, no call of
\* dumpproject and no output ever exist in that run; with exactly one entry
\* dumpproject is called exactly once, on the extracted copy.
C2_ArchiveMatch ==
    /\ info \notin {-1, 1} =>
          /\ temp = "none" /\ conn = "none" /\ calls = 0 /\ ~wrote
          /\ Exited => exit_code # 0 /\ error = "archive"
    /\ info = 1 /\ Exited => calls = 1 /\ dbpath = "temp"

C2_Witness == Exited /\ info = 2 /\ error = "archive" /\ exit_code = 2

\* C3: when dumpproject completes, every closing tag matched the innermost
\* open element and no div, ul or li is left open.
C3_WellFormed == complete => doc.ok /\ doc.stack = <<>>

\* C4: no terminal state of the run has the database connection open.
C4_ConnectionReleased == Exited => conn # "open"

\* C5: a completed report has exactly one section per Area row not named
\* "root" and none for a row named "root"; the count in a heading is the
\* number of Device rows contained in that area with container type 2.
C5_AreaSections ==
    /\ heading # NoHeading =>
          heading.count =
             Cardinality({k \in DOMAIN container_rows :
                            /\ container_rows[k].ContainerObjectID = heading.area_id
                            /\ container_rows[k].ContainerObjectTypeID = 2})
    /\ complete =>
          \A k \in DOMAIN Area :
             Cardinality({j \in DOMAIN sections : sections[j] = Area[k].AreaID})
                = IF Area[k].Name = "root" THEN 0 ELSE 1

C5_Witness ==
    /\ Len(Area) = 2 /\ Area[1].Name = "root" /\ sections = <<2>>
    /\ Len(container_rows) = 2 /\ heading.area_id = 2 /\ heading.count = 1

Zeros(n) == [k \in 1..n |-> "0"]

DigitValue(ch) == CHOOSE v \in 0..15 : HexDigits[v + 1] = ch

RECURSIVE HexValue(_)
HexValue(s) == IF s = <<>> THEN 0
               ELSE 16 * HexValue(SubSeq(s, 1, Len(s) - 1)) + DigitValue(s[Len(s)])

\* C6: a device whose class is in none of the three lists gets the
\* load-controller fragment (tag, name, 8-digit serial, revision without
\* its leading zeros) and no association query; every device falls in
\* exactly one category, with at most one association query.
C6_Classification ==
    frag.kind # "none" =>
       LET lists == {pico_device_class_info_ids, occ_sensor_device_class_info_ids,
                     daylight_sensor_device_class_info_ids}
           inNone == \A l \in lists : frag.cls \notin l
       IN /\ inNone =>
               /\ frag.kind = "load_controller"
               /\ frag.queries = 0
               /\ frag.items = <<>>
               /\ frag.tag = DeviceClassInfo[frag.cls].ModelNumber
               /\ frag.name = DeviceName(frag.DeviceID)
               /\ Len(frag.serial) = 8
               /\ HexValue(frag.serial) = SerialNumber(frag.DeviceID)
               /\ \E n \in 0..Len(frag.fw_raw) :
                     /\ frag.fw_raw = Zeros(n) \o frag.fw
                     /\ (frag.fw = <<>> \/ Head(frag.fw) # "0")
          /\ Cardinality({l \in lists : frag.cls \in l}) <= 1
          /\ frag.kind = "pico" <=> frag.cls \in pico_device_class_info_ids
          /\ frag.kind = "occupancy" <=> frag.cls \in occ_sensor_device_class_info_ids
          /\ frag.kind = "daylight" <=> frag.cls \in daylight_sensor_device_class_info_ids
          /\ frag.kind = "load_controller" <=> inNone
          /\ frag.queries = (IF inNone THEN 0 ELSE 1)

C6_Witness ==
    /\ frag.kind = "load_controller" /\ frag.cls = 5 /\ frag.queries = 0
    /\ frag.fw_raw = <<"0","0","7",".","1">> /\ frag.fw = <<"7",".","1">>

\* C7: the nested list under a control device has no two entries with the
\* same (serial, name) pair, however many join rows lead to one device.
C7_NoDuplicates ==
    \A i, j \in DOMAIN frag.items :
       i # j => <<frag.items[i].serial, frag.items[i].name>>
                  # <<frag.items[j].serial, frag.items[j].name>>

C7_Witness ==
    /\ frag.kind \in {"pico", "occupancy", "daylight"}
    /\ frag.joined = 2 /\ Len(frag.items) = 1 /\ frag.count = 1

\* C8: dumpproject is called at most once; when called, on the extracted
\* copy if an archive was given (a database path or not), else on the
\* given database path, else on the default path; a run that never calls it
\* ended with an error and wrote nothing; a missing default path ends the
\* run with an error without a call.
C8_InputResolution ==
    /\ calls <= 1
    /\ calls = 1 =>
          dbpath = IF support_file # "None" THEN "temp"
                   ELSE IF database_path # "None" THEN "database_path"
                   ELSE "default"
    /\ calls = 0 => ~wrote /\ conn = "none"
    /\ Exited /\ calls = 0 => exit_code # 0
    /\ default_isfile = "no" =>
          /\ calls = 0
          /\ Exited => error = "default" /\ exit_code # 0

C8_Witness ==
    /\ Exited /\ calls = 1 /\ dbpath = "temp"
    /\ support_file = "file" /\ database_path = "file"

\* C9: the exit status is zero exactly when the full document was written;
\* it is non-zero after an argument, archive or default-path error and
\* after a failure inside dumpproject; on a valid database the run writes
\* the whole document and exits with zero.
C9_ExitStatus ==
    Exited =>
       /\ exit_code = 0 <=> complete
       /\ error # "none" => exit_code # 0
       /\ calls = 1 /\ missing = "none" => exit_code = 0 /\ complete

IsSuffix(t, s) == Len(t) <= Len(s) /\ t = SubSeq(s, Len(s) - Len(t) + 1, Len(s))

\* C10: stripping the revision is idempotent, leaves a suffix that does not
\* start with '0', and removes only '0' characters.
C10_Strip ==
    fw_pc = "done" =>
       /\ fw_again = fw_out
       /\ IsSuffix(fw_out, fw_in)
       /\ fw_out = <<>> \/ Head(fw_out) # "0"
       /\ \A k \in 1..(Len(fw_in) - Len(fw_out)) : fw_in[k] = "0"
       /\ fw_in = <<"0","0","7",".","1">> => fw_out = <<"7",".","1">>
       /\ fw_in = <<"0","0","0">> => fw_out = <<>>
       /\ fw_in = <<"1",".","0">> => fw_out = <<"1",".","0">>

C10_Witness ==
    fw_pc = "done" /\ fw_in = <<"0","0","7",".","1">> /\ fw_out = <<"7",".","1">>

====
